---- MODULE Spec2Model ----
(***************************************************************************)
(* Catapult: the periodic scheduler (src/src/catapult/event_loop.py) and   *)
(* the configuration loader (src/src/catapult/config.py).                  *)
(*                                                                         *)
(* EventLoop is modelled at statement granularity: the threads calling     *)
(* start()/stop()/set_state_check_callback() and the worker threads        *)
(* running _run_loop() each have a program counter and interleave freely.  *)
(***************************************************************************)
EXTENDS Integers, FiniteSets, Sequences, TLC

VARIABLES
    check_interval,        \* EventLoop.check_interval
    is_running,            \* EventLoop.is_running
    loop_thread,           \* EventLoop.loop_thread: 0 is None, else a Thread id
    state_check_callback,  \* EventLoop.state_check_callback: "None" or a callback
    thread,                \* thread[t]: where Thread object t is in _run_loop
    callers,               \* the threads of the host program that call the EventLoop
    pc,                    \* pc[c]: where calling thread c is in start()/stop()
    joining,               \* joining[c]: the Thread that c's stop() joins (0: none)
    logged,                \* last message start()/stop() gave to self.logger
    raised,                \* the exception that escaped the last API call, or "None"
    stop_called,           \* history: stop() has been called on this EventLoop
    outcomes,              \* history: how the callback invocations so far ended
    config_path,           \* load_config's argument: "None" or a path
    exists,                \* the paths at which the filesystem holds a file
    environ,               \* os.environ: variable name -> string, for the set ones
    cfg_pc,                \* where load_config is
    arg_path,              \* history: config_path as it was passed
    document,              \* history: what yaml.safe_load returned
    config_data,           \* load_config's config_data: the parsed YAML document
    outcome,               \* "None", "returned" or the exception load_config raised
    config,                \* the AppConfig that load_config returned
    main_pc,               \* where main.py is, from its import to process exit
    clients,               \* the integrations whose client global holds a handle
    ready_pc,              \* where ready_check is
    services_status,       \* ready_check's services_status
    overall_ready,         \* ready_check's overall_ready
    probed,                \* test_connection calls per integration in this ready_check
    probe_outcome,         \* history: how each client's HTTP request of this call ended
    response,              \* the last response of /ready
    health,                \* the last response of /health
    status,                \* status[c]: the dict of thread c's last get_status() call
    loads,                 \* history: how often load_config was called
    requests,              \* requests[r]: where request r is in prometheus_middleware
    ACTIVE_REQUESTS,       \* the gauge's value for each (method, endpoint)
    REQUEST_COUNT          \* the counter's value for each (method, endpoint, status)

elvars == <<check_interval, is_running, loop_thread, state_check_callback, thread,
            callers, pc, joining, logged, raised, stop_called, outcomes>>

cfgvars == <<config_path, exists, environ, cfg_pc, arg_path, document, config_data,
             outcome, config>>

appvars == <<main_pc, clients, ready_pc, services_status, overall_ready, probed,
             probe_outcome, response, health>>

mwvars == <<requests, ACTIVE_REQUESTS, REQUEST_COUNT>>

othervars == <<status, loads, mwvars>>

vars == <<elvars, cfgvars, appvars, othervars>>

-----------------------------------------------------------------------------
(* Bounds *)

\* Thread objects that start() may create over the life of one EventLoop.
MaxThreads == 2

Threads == 1..MaxThreads

\* Threads of the host program that may call into the EventLoop: the main
\* thread (main.py line 159, 172) and one other.
Callers == {"main", "other"}

\* stop(): self.loop_thread.join(timeout=5)
JoinTimeout == 5

\* Intervals an EventLoop is constructed with: time.sleep() raises ValueError
\* for a negative one, returns at once for 0 and outlasts the join timeout
\* for the default of 15.
Intervals == {-1, 0, 1, 15}

\* A callback is known by what an invocation of it does: return, raise an
\* Exception, or never return.
Callbacks == {"cb_return", "cb_raise", "cb_hang"}

-----------------------------------------------------------------------------
(* Threads *)

\* threading.Thread.is_alive(): started and _run_loop has not ended.
is_alive(t) == thread[t] \notin {"none", "new", "dead"}

\* Thread objects not created yet.
Unused == {t \in Threads : thread[t] = "none"}

\* The worker is inside self.state_check_callback().
InCallback(t) == thread[t] \in Callbacks

\* time.sleep(self.check_interval) raises ValueError for a negative length.
SleepRaises == check_interval < 0

-----------------------------------------------------------------------------
(* YAML documents, as yaml.safe_load returns them: None, a str, an int, a   *)
(* bool, or a dict from str keys to documents.                              *)

Null == [k |-> "null"]
Text(s) == [k |-> "str", s |-> s]
Num(n) == [k |-> "int", n |-> n]
Bool(b) == [k |-> "bool", b |-> b]
Map(m) == [k |-> "map", m |-> m]

EmptyMap == [x \in {} |-> x]

IsMap(d) == d.k = "map"
Has(d, key) == key \in DOMAIN d.m

\* Python truth value of a document: `yaml.safe_load(file) or {}`, line 180.
Truthy(d) ==
    CASE d.k = "null" -> FALSE
      [] d.k = "str" -> d.s # ""
      [] d.k = "int" -> d.n # 0
      [] d.k = "bool" -> d.b
      [] d.k = "map" -> DOMAIN d.m # {}

\* str.lower() on the strings of the model.
Lower(s) ==
    CASE s = "TRUE" -> "true"
      [] s = "True" -> "true"
      [] s = "DEBUG" -> "debug"
      [] s = "WARNING" -> "warning"
      [] OTHER -> s

\* int(s) for a str: the decimal strings of the model; others raise ValueError.
IsIntString(s) == s \in {"9000", "8080", "0"}
ParseInt(s) ==
    CASE s = "9000" -> 9000
      [] s = "8080" -> 8080
      [] s = "0" -> 0

-----------------------------------------------------------------------------
(* The result of a dict operation: the dict afterwards, or the exception.   *)

Ok(d) == [err |-> "None", d |-> d]
Err(e) == [err |-> e, d |-> Null]

\* d.setdefault(key, {}) returns d[key], inserting {} first if key is missing;
\* on a document that is no dict the attribute lookup raises AttributeError.
SetDefault(d, key) ==
    IF ~IsMap(d) THEN Err("AttributeError")
    ELSE IF Has(d, key) THEN Ok(d)
    ELSE Ok(Map((key :> Map(EmptyMap)) @@ d.m))

\* d.setdefault(key, v) in place of d[key] = v: a key of the file is kept.
SetItemIfMissing(d, key, v) ==
    IF ~IsMap(d) THEN Err("TypeError")
    ELSE IF Has(d, key) THEN Ok(d)
    ELSE Ok(Map((key :> v) @@ d.m))

\* d[key] = v; on a document that is no dict this raises TypeError.
SetItem(d, key, v) ==
    IF ~IsMap(d) THEN Err("TypeError")
    ELSE Ok(Map((key :> v) @@ d.m))

\* config_data.setdefault(section, {})[field] = v      (the integrations)
OverrideSection(data, section, field, v) ==
    LET a == SetDefault(data, section) IN
    IF a.err # "None" THEN a
    ELSE LET b == SetItem(a.d.m[section], field, v) IN
         IF b.err # "None" THEN b
         ELSE Ok(Map((section :> b.d) @@ a.d.m))

\* config_data.setdefault("catapult", {}).setdefault("server", {})[field] = v
OverrideServer(data, field, v) ==
    LET a == SetDefault(data, "catapult") IN
    IF a.err # "None" THEN a
    ELSE LET b == SetDefault(a.d.m["catapult"], "server") IN
         IF b.err # "None" THEN b
         ELSE LET c == SetItem(b.d.m["server"], field, v) IN
              IF c.err # "None" THEN c
              ELSE Ok(Map(("catapult" :> Map(("server" :> c.d) @@ b.d.m)) @@ a.d.m))

-----------------------------------------------------------------------------
(* _apply_env_overrides: the overrides in the order of lines 200-262.       *)

Override(var, section, field, coerce) ==
    [var |-> var, section |-> section, field |-> field, coerce |-> coerce]

Overrides == <<
    Override("CATAPULT_SERVER_HOST", "server", "host", "str"),
    Override("CATAPULT_SERVER_PORT", "server", "port", "int"),
    Override("CATAPULT_LOG_LEVEL", "server", "log_level", "str"),
    Override("JIRA_ENABLED", "jira", "enabled", "bool"),
    Override("JIRA_BASE_URL", "jira", "base_url", "str"),
    Override("JIRA_USERNAME", "jira", "username", "str"),
    Override("JIRA_API_TOKEN", "jira", "api_token", "str"),
    Override("ARGOCD_ENABLED", "argocd", "enabled", "bool"),
    Override("ARGOCD_BASE_URL", "argocd", "base_url", "str"),
    Override("ARGOCD_USERNAME", "argocd", "username", "str"),
    Override("ARGOCD_PASSWORD", "argocd", "password", "str"),
    Override("ARGOCD_TOKEN", "argocd", "token", "str"),
    Override("FIREHYDRANT_ENABLED", "firehydrant", "enabled", "bool"),
    Override("FIREHYDRANT_BASE_URL", "firehydrant", "base_url", "str"),
    Override("FIREHYDRANT_API_TOKEN", "firehydrant", "api_token", "str") >>

EnvVars == {Overrides[i].var : i \in DOMAIN Overrides}

\* The value an override stores: the string itself, int(string), or
\* string.lower() == "true".
Coerced(o, s) ==
    CASE o.coerce = "str" -> Text(s)
      [] o.coerce = "int" -> Num(ParseInt(s))
      [] o.coerce = "bool" -> Bool(Lower(s) = "true")

\* One `if VAR in os.environ:` statement.  The right-hand side is evaluated
\* before the setdefault chain, so int()'s ValueError comes first.
ApplyOverride(o, env, data) ==
    IF o.var \notin DOMAIN env THEN Ok(data)
    ELSE IF o.coerce = "int" /\ ~IsIntString(env[o.var]) THEN Err("ValueError")
    ELSE IF o.section = "server"
        THEN OverrideServer(data, o.field, Coerced(o, env[o.var]))
        ELSE OverrideSection(data, o.section, o.field, Coerced(o, env[o.var]))

RECURSIVE ApplyFrom(_, _, _)
ApplyFrom(i, env, data) ==
    IF i > Len(Overrides) THEN Ok(data)
    ELSE LET r == ApplyOverride(Overrides[i], env, data) IN
         IF r.err # "None" THEN r ELSE ApplyFrom(i + 1, env, r.d)

apply_env_overrides(env, data) == ApplyFrom(1, env, data)

-----------------------------------------------------------------------------
(* The pydantic models, lines 36-136.  A validated field is a value or      *)
(* Invalid; None is the string "None".                                      *)

None == "None"
Invalid == "<invalid>"

\* field: str = Field(default=dflt)
StrField(sec, key, dflt) ==
    IF ~Has(sec, key) THEN dflt
    ELSE IF sec.m[key].k = "str" THEN sec.m[key].s ELSE Invalid

\* field: Optional[str] = Field(None)
OptStrField(sec, key) ==
    IF ~Has(sec, key) THEN None
    ELSE IF sec.m[key].k = "null" THEN None
    ELSE IF sec.m[key].k = "str" THEN sec.m[key].s ELSE Invalid

\* field: int = Field(default=dflt): an int, or a str that int() parses.
IntFieldValid(sec, key) ==
    \/ ~Has(sec, key)
    \/ sec.m[key].k = "int"
    \/ sec.m[key].k = "str" /\ IsIntString(sec.m[key].s)

IntField(sec, key, dflt) ==
    IF ~Has(sec, key) THEN dflt
    ELSE IF sec.m[key].k = "int" THEN sec.m[key].n ELSE ParseInt(sec.m[key].s)

\* field: bool = Field(default=dflt)
BoolFieldValid(sec, key) == ~Has(sec, key) \/ sec.m[key].k = "bool"

BoolField(sec, key, dflt) == IF ~Has(sec, key) THEN dflt ELSE sec.m[key].b

\* A sub-model field with a default_factory: a missing key gives the defaults,
\* a present one must be a dict.
SubValid(d, key) == ~Has(d, key) \/ IsMap(d.m[key])
Sub(d, key) == IF Has(d, key) THEN d.m[key] ELSE Map(EmptyMap)

LogLevels == {"debug", "info", "warning", "error", "critical"}

\* ServerConfig, lines 36-50.
ServerValid(sec) ==
    /\ StrField(sec, "host", "0.0.0.0") # Invalid
    /\ IntFieldValid(sec, "port")
    /\ StrField(sec, "log_level", "info") # Invalid
    /\ Lower(StrField(sec, "log_level", "info")) \in LogLevels

ServerConfig(sec) ==
    [host |-> StrField(sec, "host", "0.0.0.0"),
     port |-> IntField(sec, "port", 8000),
     log_level |-> Lower(StrField(sec, "log_level", "info"))]

\* EventLoopConfig, lines 53-57.
EventLoopValid(sec) ==
    IntFieldValid(sec, "check_interval") /\ BoolFieldValid(sec, "enabled")

EventLoopConfig(sec) ==
    [check_interval |-> IntField(sec, "check_interval", 15),
     enabled |-> BoolField(sec, "enabled", TRUE)]

\* CatapultConfig, lines 60-70.
CatapultValid(sec) ==
    /\ SubValid(sec, "server") /\ ServerValid(Sub(sec, "server"))
    /\ SubValid(sec, "event_loop") /\ EventLoopValid(Sub(sec, "event_loop"))

CatapultConfig(sec) ==
    [server |-> ServerConfig(Sub(sec, "server")),
     event_loop |-> EventLoopConfig(Sub(sec, "event_loop"))]

\* `self.field is None` in place of `not self.field`: "" passes.
MissingIsNone(v) == v = None

\* `not self.field`: None and "" are false.
Missing(v) == v = None \/ v = ""

\* JiraConfig, lines 73-90.
JiraConfig(sec) ==
    [enabled |-> BoolField(sec, "enabled", FALSE),
     base_url |-> OptStrField(sec, "base_url"),
     username |-> OptStrField(sec, "username"),
     api_token |-> OptStrField(sec, "api_token")]

JiraValid(sec) ==
    /\ BoolFieldValid(sec, "enabled")
    /\ \A f \in {"base_url", "username", "api_token"} : OptStrField(sec, f) # Invalid
    /\ LET c == JiraConfig(sec) IN
       c.enabled =>
           ~Missing(c.base_url) /\ ~Missing(c.username) /\ ~Missing(c.api_token)

\* ArgoCDConfig, lines 93-108.
ArgoCDConfig(sec) ==
    [enabled |-> BoolField(sec, "enabled", FALSE),
     base_url |-> OptStrField(sec, "base_url"),
     username |-> OptStrField(sec, "username"),
     password |-> OptStrField(sec, "password"),
     token |-> OptStrField(sec, "token")]

ArgoCDValid(sec) ==
    /\ BoolFieldValid(sec, "enabled")
    /\ \A f \in {"base_url", "username", "password", "token"} :
           OptStrField(sec, f) # Invalid
    /\ LET c == ArgoCDConfig(sec) IN c.enabled => ~Missing(c.base_url)

\* FireHydrantConfig, lines 111-127.
FireHydrantConfig(sec) ==
    [enabled |-> BoolField(sec, "enabled", FALSE),
     base_url |-> OptStrField(sec, "base_url"),
     api_token |-> OptStrField(sec, "api_token")]

FireHydrantValid(sec) ==
    /\ BoolFieldValid(sec, "enabled")
    /\ \A f \in {"base_url", "api_token"} : OptStrField(sec, f) # Invalid
    /\ LET c == FireHydrantConfig(sec) IN
       c.enabled => ~Missing(c.base_url) /\ ~Missing(c.api_token)

\* AppConfig(**config_data), lines 130-136: ** needs a dict.
AppConfigValid(data) ==
    /\ IsMap(data)
    /\ SubValid(data, "catapult") /\ CatapultValid(Sub(data, "catapult"))
    /\ SubValid(data, "jira") /\ JiraValid(Sub(data, "jira"))
    /\ SubValid(data, "argocd") /\ ArgoCDValid(Sub(data, "argocd"))
    /\ SubValid(data, "firehydrant") /\ FireHydrantValid(Sub(data, "firehydrant"))

AppConfig(data) ==
    [catapult |-> CatapultConfig(Sub(data, "catapult")),
     jira |-> JiraConfig(Sub(data, "jira")),
     argocd |-> ArgoCDConfig(Sub(data, "argocd")),
     firehydrant |-> FireHydrantConfig(Sub(data, "firehydrant"))]

NoConfig == [none |-> TRUE]

-----------------------------------------------------------------------------
(* The inputs of load_config: its argument, the filesystem, the file's      *)
(* content and the environment.                                             *)

\* possible_paths, lines 160-164, in probing order.
possible_paths == <<"config.yaml", "config/config.yaml", "/etc/catapult/config.yaml">>

ConventionalPaths == {possible_paths[i] : i \in DOMAIN possible_paths}

\* A path that a caller passes to load_config.
ExplicitPath == "/srv/custom.yaml"

\* Environment variables that are set at the same time.
MaxEnvVars == 1

\* The strings a variable is set to, by the kind of the field it overrides.
EnvStrings(o) ==
    CASE o.coerce = "bool" -> {"true", "TRUE", "1", "yes", ""}
      [] o.coerce = "int" -> {"9000", "abc"}
      [] o.field = "host" -> {"127.0.0.1"}
      [] o.field = "log_level" -> {"DEBUG", "verbose"}
      [] o.field = "base_url" -> {"https://env", ""}
      [] OTHER -> {"env-secret"}

AllEnvStrings == UNION {EnvStrings(Overrides[i]) : i \in DOMAIN Overrides}

OverrideOf(var) == CHOOSE o \in {Overrides[i] : i \in DOMAIN Overrides} : o.var = var

Environs ==
    UNION {{env \in [V -> AllEnvStrings] :
                \A var \in V : env[var] \in EnvStrings(OverrideOf(var))} :
           V \in {W \in SUBSET EnvVars : Cardinality(W) <= MaxEnvVars}}

\* What yaml.safe_load makes of the file: a YAMLError for a malformed file, or
\* the document.  The documents: an empty file, a bare scalar, one section
\* with a telling value, and the files of tests/test_config.py.
YamlError == [k |-> "yaml_error"]

FileUrl == Text("https://file")
FileUser == Text("file-user")
FileToken == Text("file-token")

CatapultSections == {
    Null,
    Text("oops"),
    Map([server |-> Null]),
    Map([server |-> Map([host |-> Text("0.0.0.0"), port |-> Num(8000)])]),
    Map([server |-> Map([port |-> Text("8080"), log_level |-> Text("WARNING")])]),
    Map([server |-> Map([log_level |-> Text("loud")])]),
    Map([server |-> Map([port |-> Text("abc")])]),
    Map([event_loop |-> Map([check_interval |-> Num(0)])]),
    Map([event_loop |-> Map([check_interval |-> Num(-1), enabled |-> Bool(TRUE)])]),
    Map([event_loop |-> Map([check_interval |-> Num(30), enabled |-> Bool(FALSE)])]) }

JiraSections == {
    Null,
    Map([enabled |-> Bool(TRUE)]),
    Map([enabled |-> Bool(FALSE)]),
    Map([enabled |-> Bool(TRUE), base_url |-> FileUrl, username |-> FileUser,
         api_token |-> FileToken]),
    Map([enabled |-> Bool(FALSE), base_url |-> FileUrl, username |-> FileUser,
         api_token |-> FileToken]),
    Map([enabled |-> Bool(TRUE), base_url |-> Text(""), username |-> FileUser,
         api_token |-> FileToken]),
    Map([enabled |-> Bool(TRUE), base_url |-> FileUrl, username |-> FileUser]) }

ArgoCDSections == {
    Null,
    Map([enabled |-> Bool(TRUE)]),
    Map([enabled |-> Bool(TRUE), base_url |-> FileUrl]),
    Map([enabled |-> Bool(TRUE), base_url |-> Null, token |-> FileToken]),
    Map([enabled |-> Bool(FALSE), base_url |-> FileUrl]) }

FireHydrantSections == {
    Null,
    Map([enabled |-> Bool(TRUE)]),
    Map([enabled |-> Bool(TRUE), base_url |-> FileUrl]),
    Map([enabled |-> Bool(TRUE), base_url |-> FileUrl, api_token |-> FileToken]),
    Map([enabled |-> Bool(FALSE), base_url |-> FileUrl, api_token |-> FileToken]) }

Documents ==
    {Null, Text("hello")}
    \cup {Map([catapult |-> s]) : s \in CatapultSections}
    \cup {Map([jira |-> s]) : s \in JiraSections}
    \cup {Map([argocd |-> s]) : s \in ArgoCDSections}
    \cup {Map([firehydrant |-> s]) : s \in FireHydrantSections}
    \cup {Map([catapult |-> Map([server |-> Map([host |-> Text("0.0.0.0"),
                                                  port |-> Num(8000)])]),
               jira |-> Map([enabled |-> Bool(FALSE)])]),
          Map([catapult |-> Map([server |-> Map([port |-> Num(9000)])]),
               jira |-> Map([enabled |-> Bool(TRUE), base_url |-> FileUrl,
                             username |-> FileUser, api_token |-> FileToken])]),
          Map([catapult |-> Null, jira |-> Map([enabled |-> Bool(TRUE)])])}

FileContents == {YamlError} \cup Documents

NotRead == [k |-> "unread"]

-----------------------------------------------------------------------------
(* main.py: the state of the module before any request                      *)

Integrations == {"jira", "argocd", "firehydrant"}

NoResponse == [code |-> 0]

\* get_status() has not been called.
NoStatus == [none |-> TRUE]

\* Requests that the server handles at the same time.
MaxRequests == 2

Requests == 1..MaxRequests

\* The paths of main.py's routes, lines 91, 97, 142.
Endpoints == {"/health", "/ready", "/metrics"}

\* request.method: the routes are GET routes, any other method gets a 405.
Methods == {"GET", "POST"}

\* The label values of ACTIVE_REQUESTS (metrics.py line 26).
Labels == Methods \X Endpoints

\* response.status_code of the response that call_next returns: 405 for a
\* method without a route; 200 from health_check and metrics; 200, 503 or the
\* 500 of the HTTPException from ready_check.
StatusCodes(method, endpoint) ==
    IF method # "GET" THEN {405}
    ELSE IF endpoint = "/ready" THEN {200, 503, 500}
    ELSE {200}

\* The label values of REQUEST_COUNT (metrics.py line 14).
CountLabels ==
    {<<l[1], l[2], st>> : l \in Labels, st \in {200, 405, 500, 503}}

\* No request occupies the slot.
NoRequest == [at |-> "none", method |-> "", endpoint |-> "", status |-> 0]

\* The globals of main.py with the module at position at and the client
\* globals holding handles for handles; the metrics are at zero and nothing
\* has been called.
AppInit(at, handles) ==
    /\ main_pc = at
    /\ clients = handles
    /\ ready_pc = "idle"
    /\ services_status = EmptyMap
    /\ overall_ready = TRUE
    /\ probed = [g \in Integrations |-> 0]
    /\ probe_outcome = [g \in Integrations |-> "none"]
    /\ response = NoResponse
    /\ health = NoResponse
    /\ status = [c \in Callers |-> NoStatus]
    /\ loads = 0
    /\ requests = [r \in Requests |-> NoRequest]
    /\ ACTIVE_REQUESTS = [l \in Labels |-> 0]
    /\ REQUEST_COUNT = [k \in CountLabels |-> 0]

-----------------------------------------------------------------------------
(* EventLoop.__init__ *)

EventLoopInit(intervals) ==
    /\ check_interval \in intervals
    /\ is_running = FALSE
    /\ loop_thread = 0
    /\ state_check_callback = "None"
    /\ thread = [t \in Threads |-> "none"]
    /\ callers = {"main"}
    /\ pc = [c \in Callers |-> "idle"]
    /\ joining = [c \in Callers |-> 0]
    /\ logged = "None"
    /\ raised = "None"
    /\ stop_called = FALSE
    /\ outcomes = {}

\* An EventLoop in a program that does not call load_config.
Init ==
    /\ EventLoopInit(Intervals)
    /\ config_path = None
    /\ arg_path = None
    /\ exists = {}
    /\ environ = EmptyMap
    /\ cfg_pc = "off"
    /\ document = NotRead
    /\ config_data = Null
    /\ outcome = "None"
    /\ config = NoConfig
    /\ AppInit("off", {})

-----------------------------------------------------------------------------
(* EventLoop.set_state_check_callback *)

set_state_check_callback(c) ==
    /\ pc[c] = "idle"
    /\ \E cb \in Callbacks :
        /\ cb # state_check_callback
        /\ state_check_callback' = cb
    /\ raised' = "None"
    /\ UNCHANGED <<callers, check_interval, is_running, loop_thread, thread, pc, joining,
                   logged, stop_called, outcomes>>
    /\ UNCHANGED <<cfgvars, appvars, othervars>>

-----------------------------------------------------------------------------
(* EventLoop.start *)

\* start() without the test of line 21.
start_check_unguarded(c) ==
    /\ pc[c] = "idle"
    /\ Unused # {}
    /\ raised' = "None"
    /\ pc' = [pc EXCEPT ![c] = "start_25"]
    /\ UNCHANGED <<callers, check_interval, is_running, loop_thread, state_check_callback,
                   thread, joining, logged, stop_called, outcomes>>
    /\ UNCHANGED <<cfgvars, appvars, othervars>>

\* line 21-23: if self.is_running: warn and return.  What thread c's call of
\* start() does to the EventLoop on entry.
start_enter(c) ==
    /\ pc[c] = "idle"
    /\ is_running \/ Unused # {}
    /\ raised' = "None"
    /\ IF is_running
         THEN /\ logged' = "already_running"
              /\ UNCHANGED pc
         ELSE /\ pc' = [pc EXCEPT ![c] = "start_25"]
              /\ UNCHANGED logged
    /\ UNCHANGED <<callers, check_interval, is_running, loop_thread, state_check_callback,
                   thread, joining, stop_called, outcomes>>

\* start() called by a host program that does nothing else in that step.
start_check(c) ==
    /\ start_enter(c)
    /\ UNCHANGED <<cfgvars, appvars, othervars>>

\* line 25: self.is_running = True
start_set_running(c) ==
    /\ pc[c] = "start_25"
    /\ is_running' = TRUE
    /\ pc' = [pc EXCEPT ![c] = "start_26"]
    /\ UNCHANGED <<callers, check_interval, loop_thread, state_check_callback, thread,
                   joining, logged, raised, stop_called, outcomes>>
    /\ UNCHANGED <<cfgvars, appvars, othervars>>

\* line 26: self.loop_thread = threading.Thread(target=self._run_loop, ...)
start_create_thread(c) ==
    /\ pc[c] = "start_26"
    /\ \E t \in Unused :
        /\ \A u \in Unused : t <= u
        /\ thread' = [thread EXCEPT ![t] = "new"]
        /\ loop_thread' = t
    /\ pc' = [pc EXCEPT ![c] = "start_27"]
    /\ UNCHANGED <<callers, check_interval, is_running, state_check_callback, joining,
                   logged, raised, stop_called, outcomes>>
    /\ UNCHANGED <<cfgvars, appvars, othervars>>

\* line 27-28: self.loop_thread.start(); log "Event loop started"
\* Thread.start() raises RuntimeError for a thread that was started before.
start_thread(c) ==
    /\ pc[c] = "start_27"
    /\ IF thread[loop_thread] = "new"
         THEN /\ thread' = [thread EXCEPT ![loop_thread] = "while"]
              /\ logged' = "started"
              /\ UNCHANGED raised
         ELSE /\ raised' = "RuntimeError"
              /\ UNCHANGED <<thread, logged>>
    /\ pc' = [pc EXCEPT ![c] = "idle"]
    /\ UNCHANGED <<callers, check_interval, is_running, loop_thread, state_check_callback,
                   joining, stop_called, outcomes>>
    /\ UNCHANGED <<cfgvars, appvars, othervars>>

-----------------------------------------------------------------------------
(* EventLoop.stop *)

\* stop() without the test of line 33: None has no join().
stop_clear_running_unguarded(c) ==
    /\ pc[c] = "idle"
    /\ is_running' = FALSE
    /\ stop_called' = TRUE
    /\ IF loop_thread # 0
         THEN /\ pc' = [pc EXCEPT ![c] = "stop_34"]
              /\ raised' = "None"
         ELSE /\ raised' = "AttributeError"
              /\ UNCHANGED pc
    /\ UNCHANGED <<callers, check_interval, loop_thread, state_check_callback, thread,
                   joining, logged, outcomes>>
    /\ UNCHANGED <<cfgvars, appvars, othervars>>

\* line 32-33: self.is_running = False; if self.loop_thread:
\* What thread c's call of stop() does to the EventLoop on entry.
stop_enter(c) ==
    /\ pc[c] = "idle"
    /\ is_running' = FALSE
    /\ stop_called' = TRUE
    /\ raised' = "None"
    /\ IF loop_thread # 0
         THEN /\ pc' = [pc EXCEPT ![c] = "stop_34"]
              /\ UNCHANGED logged
         ELSE /\ logged' = "stopped"
              /\ UNCHANGED pc
    /\ UNCHANGED <<callers, check_interval, loop_thread, state_check_callback, thread,
                   joining, outcomes>>

\* stop() called by a host program that does nothing else in that step.
stop_clear_running(c) ==
    /\ stop_enter(c)
    /\ UNCHANGED <<cfgvars, appvars, othervars>>

\* line 34: self.loop_thread.join(timeout=5) is entered on the Thread that
\* loop_thread names now; Thread.join() raises RuntimeError for a thread that
\* has not been started.
stop_join_enter(c) ==
    /\ pc[c] = "stop_34"
    /\ IF thread[loop_thread] = "new"
         THEN /\ raised' = "RuntimeError"
              /\ pc' = [pc EXCEPT ![c] = "idle"]
              /\ UNCHANGED joining
         ELSE /\ joining' = [joining EXCEPT ![c] = loop_thread]
              /\ pc' = [pc EXCEPT ![c] = "stop_join"]
              /\ UNCHANGED raised
    /\ UNCHANGED <<callers, check_interval, is_running, loop_thread, state_check_callback,
                   thread, logged, stop_called, outcomes>>
    /\ UNCHANGED <<cfgvars, appvars, othervars>>

\* join returns because the worker has ended; line 35 logs "Event loop stopped".
stop_join_ended(c) ==
    /\ pc[c] = "stop_join"
    /\ ~is_alive(joining[c])
    /\ pc' = [pc EXCEPT ![c] = "idle"]
    /\ joining' = [joining EXCEPT ![c] = 0]
    /\ logged' = "stopped"
    /\ UNCHANGED <<callers, check_interval, is_running, loop_thread, state_check_callback,
                   thread, raised, stop_called, outcomes>>
    /\ UNCHANGED <<cfgvars, appvars, othervars>>

\* join() without a timeout never gives up on a live worker.
stop_join_untimed(c) ==
    /\ pc[c] = "stop_join"
    /\ FALSE
    /\ UNCHANGED vars

\* join returns because JoinTimeout seconds passed with the worker alive: it is
\* in a callback that takes that long or in a time.sleep() not yet over.
\* The worker is left as it is; line 35 logs "Event loop stopped".
stop_join_timeout(c) ==
    /\ pc[c] = "stop_join"
    /\ is_alive(joining[c])
    /\ \/ InCallback(joining[c])
       \/ thread[joining[c]] \in {"sleep", "except"} /\ check_interval > JoinTimeout
    /\ pc' = [pc EXCEPT ![c] = "idle"]
    /\ joining' = [joining EXCEPT ![c] = 0]
    /\ logged' = "stopped"
    /\ UNCHANGED <<callers, check_interval, is_running, loop_thread, state_check_callback,
                   thread, raised, stop_called, outcomes>>
    /\ UNCHANGED <<cfgvars, appvars, othervars>>

-----------------------------------------------------------------------------
(* EventLoop._run_loop and EventLoop._check_state, run by worker t *)

\* `while True:` in place of line 39: the flag is never looked at.
run_loop_while_forever(t) ==
    /\ thread[t] = "while"
    /\ thread' = [thread EXCEPT ![t] = "check"]
    /\ UNCHANGED <<callers, check_interval, is_running, loop_thread, state_check_callback,
                   pc, joining, logged, raised, stop_called, outcomes>>
    /\ UNCHANGED <<cfgvars, appvars, othervars>>

\* line 39: while self.is_running
run_loop_while(t) ==
    /\ thread[t] = "while"
    /\ thread' = [thread EXCEPT ![t] = IF is_running THEN "check" ELSE "dead"]
    /\ UNCHANGED <<callers, check_interval, is_running, loop_thread, state_check_callback,
                   pc, joining, logged, raised, stop_called, outcomes>>
    /\ UNCHANGED <<cfgvars, appvars, othervars>>

\* line 41, 49-56: _check_state() enters the callback if one is set, else logs
\* the default state check and returns.
check_state(t) ==
    /\ thread[t] = "check"
    /\ thread' = [thread EXCEPT ![t] =
           IF state_check_callback # "None" THEN state_check_callback ELSE "sleep"]
    /\ UNCHANGED <<callers, check_interval, is_running, loop_thread, state_check_callback,
                   pc, joining, logged, raised, stop_called, outcomes>>
    /\ UNCHANGED <<cfgvars, appvars, othervars>>

\* A failed callback retried at once: after a raise the loop condition is
\* next, without the sleep of line 42.
callback_ends_retry(t) ==
    /\ thread[t] \in {"cb_return", "cb_raise"}
    /\ outcomes' = outcomes \cup {thread[t]}
    /\ thread' = [thread EXCEPT ![t] = IF thread[t] = "cb_raise" THEN "while" ELSE "sleep"]
    /\ UNCHANGED <<callers, check_interval, is_running, loop_thread, state_check_callback,
                   pc, joining, logged, raised, stop_called>>
    /\ UNCHANGED <<cfgvars, appvars, othervars>>

\* line 51-53: the callback returns, or raises an Exception that _check_state
\* catches and logs; either way _check_state returns and line 42 is next.
\* A callback that never returns stays where it is.
callback_ends(t) ==
    /\ thread[t] \in {"cb_return", "cb_raise"}
    /\ outcomes' = outcomes \cup {thread[t]}
    /\ thread' = [thread EXCEPT ![t] = "sleep"]
    /\ UNCHANGED <<callers, check_interval, is_running, loop_thread, state_check_callback,
                   pc, joining, logged, raised, stop_called>>
    /\ UNCHANGED <<cfgvars, appvars, othervars>>

\* The loop condition tested only once: after the sleep the next tick follows.
run_loop_sleep_no_test(t) ==
    /\ thread[t] = "sleep"
    /\ thread' = [thread EXCEPT ![t] = IF SleepRaises THEN "except" ELSE "check"]
    /\ UNCHANGED <<callers, check_interval, is_running, loop_thread, state_check_callback,
                   pc, joining, logged, raised, stop_called, outcomes>>
    /\ UNCHANGED <<cfgvars, appvars, othervars>>

\* line 42: time.sleep(self.check_interval); its ValueError goes to line 43.
run_loop_sleep(t) ==
    /\ thread[t] = "sleep"
    /\ thread' = [thread EXCEPT ![t] = IF SleepRaises THEN "except" ELSE "while"]
    /\ UNCHANGED <<callers, check_interval, is_running, loop_thread, state_check_callback,
                   pc, joining, logged, raised, stop_called, outcomes>>
    /\ UNCHANGED <<cfgvars, appvars, othervars>>

\* line 43-45: log the error and time.sleep(self.check_interval) again; an
\* exception raised here leaves _run_loop and the thread ends.
run_loop_except(t) ==
    /\ thread[t] = "except"
    /\ thread' = [thread EXCEPT ![t] = IF SleepRaises THEN "dead" ELSE "while"]
    /\ UNCHANGED <<callers, check_interval, is_running, loop_thread, state_check_callback,
                   pc, joining, logged, raised, stop_called, outcomes>>
    /\ UNCHANGED <<cfgvars, appvars, othervars>>

Worker(t) ==
    \/ run_loop_while(t)
    \/ check_state(t)
    \/ callback_ends(t)
    \/ run_loop_sleep(t)
    \/ run_loop_except(t)

-----------------------------------------------------------------------------
(* EventLoop.get_status, lines 58-64 *)

\* The dict that get_status() builds from the fields as they are now.
Snapshot ==
    [is_running |-> is_running,
     check_interval |-> check_interval,
     thread_alive |-> IF loop_thread # 0 THEN is_alive(loop_thread) ELSE FALSE]

\* get_status() without the test of line 63: None has no is_alive().
get_status_read_unguarded(c) ==
    /\ pc[c] = "idle"
    /\ IF loop_thread # 0
         THEN /\ status' = [status EXCEPT ![c] =
                     [is_running |-> is_running, check_interval |-> check_interval,
                      thread_alive |-> FALSE]]
              /\ pc' = [pc EXCEPT ![c] = "status_63"]
              /\ raised' = "None"
         ELSE /\ raised' = "AttributeError"
              /\ UNCHANGED <<status, pc>>
    /\ UNCHANGED <<callers, check_interval, is_running, loop_thread, state_check_callback,
                   thread, joining, logged, stop_called, outcomes>>
    /\ UNCHANGED <<cfgvars, appvars, loads, mwvars>>

\* line 61-63: the values of is_running and check_interval are read, then
\* `if self.loop_thread`; without a thread object thread_alive is False and
\* the dict is returned.
get_status_read(c) ==
    /\ pc[c] = "idle"
    /\ raised' = "None"
    /\ status' = [status EXCEPT ![c] =
           [is_running |-> is_running, check_interval |-> check_interval,
            thread_alive |-> FALSE]]
    /\ pc' = [pc EXCEPT ![c] = IF loop_thread # 0 THEN "status_63" ELSE "idle"]
    /\ UNCHANGED <<callers, check_interval, is_running, loop_thread, state_check_callback,
                   thread, joining, logged, stop_called, outcomes>>
    /\ UNCHANGED <<cfgvars, appvars, loads, mwvars>>

\* line 63: self.loop_thread.is_alive() on the thread object that loop_thread
\* names now (False for a thread not started yet); the dict is returned.
get_status_alive(c) ==
    /\ pc[c] = "status_63"
    /\ status' = [status EXCEPT ![c] =
           [is_running |-> status[c].is_running,
            check_interval |-> status[c].check_interval,
            thread_alive |-> is_alive(loop_thread)]]
    /\ pc' = [pc EXCEPT ![c] = "idle"]
    /\ UNCHANGED <<callers, check_interval, is_running, loop_thread, state_check_callback,
                   thread, joining, logged, raised, stop_called, outcomes>>
    /\ UNCHANGED <<cfgvars, appvars, loads, mwvars>>

-----------------------------------------------------------------------------
(* The scheduler: one thread calls the EventLoop's methods one after the     *)
(* other while the workers run.                                              *)

Next ==
    \/ \E c \in callers : set_state_check_callback(c)
    \/ \E c \in callers : start_check(c)
    \/ \E c \in callers : start_set_running(c)
    \/ \E c \in callers : start_create_thread(c)
    \/ \E c \in callers : start_thread(c)
    \/ \E c \in callers : stop_clear_running(c)
    \/ \E c \in callers : stop_join_enter(c)
    \/ \E c \in callers : stop_join_ended(c)
    \/ \E c \in callers : stop_join_timeout(c)
    \/ \E t \in Threads : run_loop_while(t)
    \/ \E t \in Threads : check_state(t)
    \/ \E t \in Threads : callback_ends(t)
    \/ \E t \in Threads : run_loop_sleep(t)
    \/ \E t \in Threads : run_loop_except(t)

Spec == Init /\ [][Next]_vars

\* What the threads of the program are sure to do: a started worker keeps
\* running _run_loop, a call in progress runs on to its return, and join
\* returns once the worker has ended or the timeout has passed.  Whether and
\* when start(), stop() and set_state_check_callback() are called is up to the
\* host program.
CallProceeds(c) ==
    \/ start_set_running(c)
    \/ start_create_thread(c)
    \/ start_thread(c)
    \/ stop_join_enter(c)
    \/ stop_join_ended(c)
    \/ stop_join_timeout(c)

Fairness ==
    /\ \A t \in Threads : WF_vars(Worker(t))
    /\ \A c \in Callers : WF_vars(CallProceeds(c))

FairSpec == Init /\ [][Next]_vars /\ Fairness

-----------------------------------------------------------------------------
(* main.py: prometheus_middleware, lines 64-88. Each request runs the       *)
(* middleware as a coroutine of its own; they interleave at the await of    *)
(* line 72.                                                                  *)

\* Requests that the server accepts in a run.
MaxCount == 3

RECURSIVE Total(_, _)
Total(f, keys) ==
    IF keys = {} THEN 0
    ELSE LET k == CHOOSE x \in keys : TRUE
         IN f[k] + Total(f, keys \ {k})

\* The requests that are inside call_next with the labels l.
InFlight(l) ==
    {r \in Requests : /\ requests[r].at = "call_next"
                      /\ requests[r].method = l[1]
                      /\ requests[r].endpoint = l[2]}

Accepted ==
    Total(REQUEST_COUNT, CountLabels)
        + Cardinality({r \in Requests : requests[r].at # "none"})

\* line 69, 71-72: the gauge of the request's labels is incremented, then the
\* handler is awaited.
mw_enter(r, method, endpoint) ==
    /\ requests[r].at = "none"
    /\ Accepted < MaxCount
    /\ ACTIVE_REQUESTS' =
           [ACTIVE_REQUESTS EXCEPT ![<<method, endpoint>>] = @ + 1]
    /\ requests' = [requests EXCEPT ![r] =
           [at |-> "call_next", method |-> method, endpoint |-> endpoint,
            status |-> 0]]
    /\ UNCHANGED REQUEST_COUNT
    /\ UNCHANGED <<elvars, cfgvars, appvars, status, loads>>

\* The middleware without its finally block: nothing is decremented when
\* call_next raises.
mw_raises_no_finally(r) ==
    /\ requests[r].at = "call_next"
    /\ requests' = [requests EXCEPT ![r] = [@ EXCEPT !.at = "raised"]]
    /\ UNCHANGED <<ACTIVE_REQUESTS, REQUEST_COUNT>>
    /\ UNCHANGED <<elvars, cfgvars, appvars, status, loads>>

\* lines 72-85, 88: call_next returns a response; the counter of the
\* request's labels and the response's status is incremented, the response
\* is returned and the finally block decrements the gauge.
mw_response(r) ==
    /\ requests[r].at = "call_next"
    /\ \E st \in StatusCodes(requests[r].method, requests[r].endpoint) :
        /\ REQUEST_COUNT' =
               [REQUEST_COUNT EXCEPT
                    ![<<requests[r].method, requests[r].endpoint, st>>] = @ + 1]
        /\ requests' = [requests EXCEPT ![r] =
               [@ EXCEPT !.at = "responded", !.status = st]]
    /\ ACTIVE_REQUESTS' =
           [ACTIVE_REQUESTS EXCEPT
                ![<<requests[r].method, requests[r].endpoint>>] = @ - 1]
    /\ UNCHANGED <<elvars, cfgvars, appvars, status, loads>>

\* lines 72, 88: the await of call_next raises (the handler's exception, or
\* the cancellation of the request); only the finally block runs.
mw_raises(r) ==
    /\ requests[r].at = "call_next"
    /\ requests' = [requests EXCEPT ![r] = [@ EXCEPT !.at = "raised"]]
    /\ ACTIVE_REQUESTS' =
           [ACTIVE_REQUESTS EXCEPT
                ![<<requests[r].method, requests[r].endpoint>>] = @ - 1]
    /\ UNCHANGED REQUEST_COUNT
    /\ UNCHANGED <<elvars, cfgvars, appvars, status, loads>>

\* The request is over; its slot takes the next one.
mw_done(r) ==
    /\ requests[r].at \in {"responded", "raised"}
    /\ requests' = [requests EXCEPT ![r] = NoRequest]
    /\ UNCHANGED <<ACTIVE_REQUESTS, REQUEST_COUNT>>
    /\ UNCHANGED <<elvars, cfgvars, appvars, status, loads>>

InitMiddleware ==
    /\ config = AppConfig(Map(EmptyMap))
    /\ outcome = "returned"
    /\ cfg_pc = "done"
    /\ config_path = None
    /\ arg_path = None
    /\ exists = {}
    /\ environ = EmptyMap
    /\ document = NotRead
    /\ config_data = Null
    /\ EventLoopInit({15})
    /\ AppInit("serving", {})

NextMiddleware ==
    \/ \E r \in Requests, method \in Methods, endpoint \in Endpoints :
           mw_enter(r, method, endpoint)
    \/ \E r \in Requests : mw_response(r)
    \/ \E r \in Requests : mw_raises(r)
    \/ \E r \in Requests : mw_done(r)

SpecMiddleware == InitMiddleware /\ [][NextMiddleware]_vars

-----------------------------------------------------------------------------
(* The EventLoop shared by two threads of the host program, each of which   *)
(* calls start(), stop() and get_status() whenever it likes.                *)

ConcurrentIntervals == {-1, 15}

InitConcurrent ==
    /\ check_interval \in ConcurrentIntervals
    /\ is_running = FALSE
    /\ loop_thread = 0
    /\ state_check_callback = "None"
    /\ thread = [t \in Threads |-> "none"]
    /\ callers = Callers
    /\ pc = [c \in Callers |-> "idle"]
    /\ joining = [c \in Callers |-> 0]
    /\ logged = "None"
    /\ raised = "None"
    /\ stop_called = FALSE
    /\ outcomes = {}
    /\ config_path = None
    /\ arg_path = None
    /\ exists = {}
    /\ environ = EmptyMap
    /\ cfg_pc = "off"
    /\ document = NotRead
    /\ config_data = Null
    /\ outcome = "None"
    /\ config = NoConfig
    /\ AppInit("off", {})

\* The host registers its callback once, before the scheduler is first
\* started, as main.py does on line 61.
register_callback(c) ==
    /\ state_check_callback = "None"
    /\ Unused = Threads
    /\ \A d \in Callers : pc[d] = "idle"
    /\ set_state_check_callback(c)

NextConcurrent ==
    \/ \E c \in callers : register_callback(c)
    \/ \E c \in callers : start_check(c)
    \/ \E c \in callers : start_set_running(c)
    \/ \E c \in callers : start_create_thread(c)
    \/ \E c \in callers : start_thread(c)
    \/ \E c \in callers : stop_clear_running(c)
    \/ \E c \in callers : stop_join_enter(c)
    \/ \E c \in callers : stop_join_ended(c)
    \/ \E c \in callers : stop_join_timeout(c)
    \/ \E c \in callers : get_status_read(c)
    \/ \E c \in callers : get_status_alive(c)
    \/ \E t \in Threads : run_loop_while(t)
    \/ \E t \in Threads : check_state(t)
    \/ \E t \in Threads : callback_ends(t)
    \/ \E t \in Threads : run_loop_sleep(t)
    \/ \E t \in Threads : run_loop_except(t)

SpecConcurrent == InitConcurrent /\ [][NextConcurrent]_vars

-----------------------------------------------------------------------------
(* load_config, lines 139-193 *)

\* The first of possible_paths at which a file exists, or "None".
FirstExisting ==
    IF \E i \in DOMAIN possible_paths : possible_paths[i] \in exists
    THEN possible_paths[CHOOSE i \in DOMAIN possible_paths :
                            /\ possible_paths[i] \in exists
                            /\ \A j \in 1..(i - 1) : possible_paths[j] \notin exists]
    ELSE None

\* load_config that insists on a file: FileNotFoundError when none is found.
load_config_path_strict ==
    /\ cfg_pc = "path"
    /\ IF config_path # None
         THEN /\ cfg_pc' = "yaml"
              /\ UNCHANGED <<config_path, outcome, config>>
         ELSE IF FirstExisting # None
         THEN /\ config_path' = FirstExisting
              /\ cfg_pc' = "yaml"
              /\ UNCHANGED <<outcome, config>>
         ELSE /\ outcome' = "FileNotFoundError"
              /\ cfg_pc' = "done"
              /\ UNCHANGED <<config_path, config>>
    /\ loads' = loads + 1
    /\ UNCHANGED <<arg_path, exists, environ, document, config_data>>
    /\ UNCHANGED <<elvars, appvars, status, mwvars>>

\* line 159-175: without an argument probe possible_paths; if no file is found
\* return AppConfig(), the defaults.
load_config_path ==
    /\ cfg_pc = "path"
    /\ IF config_path # None
         THEN /\ cfg_pc' = "yaml"
              /\ UNCHANGED <<config_path, outcome, config>>
         ELSE IF FirstExisting # None
         THEN /\ config_path' = FirstExisting
              /\ cfg_pc' = "yaml"
              /\ UNCHANGED <<outcome, config>>
         ELSE /\ config' = AppConfig(Map(EmptyMap))
              /\ outcome' = "returned"
              /\ cfg_pc' = "done"
              /\ UNCHANGED config_path
    /\ loads' = loads + 1
    /\ UNCHANGED <<arg_path, exists, environ, document, config_data>>
    /\ UNCHANGED <<elvars, appvars, status, mwvars>>

\* A missing file treated as an empty one: config_data = {}.
load_config_yaml_lenient ==
    /\ cfg_pc = "yaml"
    /\ IF config_path \notin exists
         THEN /\ config_data' = Map(EmptyMap)
              /\ cfg_pc' = "env"
              /\ UNCHANGED <<document, outcome>>
         ELSE \E content \in FileContents :
              /\ document' = content
              /\ IF content = YamlError
                   THEN /\ outcome' = "YAMLError"
                        /\ cfg_pc' = "done"
                        /\ UNCHANGED config_data
                   ELSE /\ config_data' = IF Truthy(content) THEN content
                                           ELSE Map(EmptyMap)
                        /\ cfg_pc' = "env"
                        /\ UNCHANGED outcome
    /\ UNCHANGED <<arg_path, config_path, exists, environ, config>>
    /\ UNCHANGED <<elvars, appvars, othervars>>

\* line 178-184: open(config_path) and yaml.safe_load(file) or {}
load_config_yaml ==
    /\ cfg_pc = "yaml"
    /\ IF config_path \notin exists
         THEN /\ outcome' = "FileNotFoundError"
              /\ cfg_pc' = "done"
              /\ UNCHANGED <<document, config_data>>
         ELSE \E content \in FileContents :
              /\ document' = content
              /\ IF content = YamlError
                   THEN /\ outcome' = "YAMLError"
                        /\ cfg_pc' = "done"
                        /\ UNCHANGED config_data
                   ELSE /\ config_data' = IF Truthy(content) THEN content
                                           ELSE Map(EmptyMap)
                        /\ cfg_pc' = "env"
                        /\ UNCHANGED outcome
    /\ UNCHANGED <<arg_path, config_path, exists, environ, config>>
    /\ UNCHANGED <<elvars, appvars, othervars>>

\* line 187: config_data = _apply_env_overrides(config_data); an exception
\* raised in it leaves load_config.
load_config_env ==
    /\ cfg_pc = "env"
    /\ LET r == apply_env_overrides(environ, config_data) IN
       IF r.err # "None"
         THEN /\ outcome' = r.err
              /\ cfg_pc' = "done"
              /\ UNCHANGED config_data
         ELSE /\ config_data' = r.d
              /\ cfg_pc' = "validate"
              /\ UNCHANGED outcome
    /\ UNCHANGED <<arg_path, config_path, exists, environ, document, config>>
    /\ UNCHANGED <<elvars, appvars, othervars>>

\* line 190-193: return AppConfig(**config_data); any Exception becomes
\* ValueError("Configuration validation failed: ...").
load_config_validate ==
    /\ cfg_pc = "validate"
    /\ IF AppConfigValid(config_data)
         THEN /\ config' = AppConfig(config_data)
              /\ outcome' = "returned"
         ELSE /\ outcome' = "ValueError"
              /\ UNCHANGED config
    /\ cfg_pc' = "done"
    /\ UNCHANGED <<arg_path, config_path, exists, environ, document, config_data>>
    /\ UNCHANGED <<elvars, appvars, othervars>>

\* A call of load_config: the argument, the files that exist and the
\* environment are the caller's; the EventLoop is as constructed by default.
InitConfig ==
    /\ arg_path \in {None, ExplicitPath}
    /\ config_path = arg_path
    /\ exists \in SUBSET (ConventionalPaths \cup {ExplicitPath})
    /\ arg_path = None => ExplicitPath \notin exists
    /\ environ \in Environs
    /\ cfg_pc = "path"
    /\ document = NotRead
    /\ config_data = Null
    /\ outcome = "None"
    /\ config = NoConfig
    /\ EventLoopInit({15})
    /\ AppInit("off", {})

NextConfig ==
    \/ load_config_path
    \/ load_config_yaml
    \/ load_config_env
    \/ load_config_validate

SpecConfig == InitConfig /\ [][NextConfig]_vars

-----------------------------------------------------------------------------
(* The clients' test_connection: jira_client.py 174-184, argocd_client.py   *)
(* 72-83, firehydrant_client.py 56-73                                       *)

\* How an HTTP request of a probe ends: a status code, or requests raises.
Exceptions == {"ConnectionError", "Timeout"}
ProbeOutcomes == {"200", "404", "500"} \cup Exceptions

Returns(v) == [raises |-> "None", value |-> v]
Raises(e) == [raises |-> e, value |-> FALSE]

\* The outcome that decides: FireHydrant asks /v1/users/me after a 404 from
\* /v1/ping, the others make one request.
FinalOutcome(g, first, second) ==
    IF g = "firehydrant" /\ first = "404" THEN second ELSE first

\* test_connection without its try/except: the exception reaches the caller.
test_connection_unguarded(g, first, second) ==
    LET final == FinalOutcome(g, first, second) IN
    IF final \in Exceptions THEN Raises(final) ELSE Returns(final = "200")

\* return response.status_code == 200; except Exception: log, return False
test_connection(g, first, second) ==
    LET final == FinalOutcome(g, first, second) IN
    IF final \in Exceptions THEN Returns(FALSE) ELSE Returns(final = "200")

-----------------------------------------------------------------------------
(* main.py: /health and /ready, lines 91-139.  The handlers are coroutines   *)
(* without an await, so the server runs each of them to its end before it   *)
(* takes up another request; the scheduler's worker runs beside them.       *)

\* line 91-94
health_check ==
    /\ main_pc = "serving"
    /\ ready_pc = "idle"
    /\ health' = [code |-> 200, status |-> "healthy"]
    /\ UNCHANGED <<main_pc, clients, ready_pc, services_status, overall_ready, probed,
                   probe_outcome, response>>
    /\ UNCHANGED <<elvars, cfgvars, othervars>>

\* line 100-101: services_status = {}; overall_ready = True
ready_begin ==
    /\ main_pc = "serving"
    /\ ready_pc = "idle"
    /\ services_status' = EmptyMap
    /\ overall_ready' = TRUE
    /\ probed' = [g \in Integrations |-> 0]
    /\ probe_outcome' = [g \in Integrations |-> "none"]
    /\ ready_pc' = "jira"
    /\ UNCHANGED <<main_pc, clients, response, health>>
    /\ UNCHANGED <<elvars, cfgvars, othervars>>

\* The block that follows the block of integration g.
After(g) ==
    CASE g = "jira" -> "argocd"
      [] g = "argocd" -> "firehydrant"
      [] g = "firehydrant" -> "return"

\* `if config.g.enabled and g_client:` with any handle taken for a usable one.
ProbesAnyClient(g) == g \in clients

\* line 104, 114, 124: if config.g.enabled and g_client:
Probes(g) == config[g].enabled /\ g \in clients

\* The elif branch left out.
UnconfiguredNever(g) == FALSE

\* line 109, 119, 129: elif config.g.enabled:
Unconfigured(g) == config[g].enabled

\* line 106, 116, 126: "ready" if g_ready else "not ready"
ServiceStatus(ready) == IF ready THEN "ready" ELSE "not ready"

\* `overall_ready = g_ready` in place of the conditional assignment.
OverallOfLast(overall, ready) == ready

\* line 107-108, 117-118, 127-128: if not g_ready: overall_ready = False
Overall(overall, ready) == IF ~ready THEN FALSE ELSE overall

\* The block of g that skips the probe once an earlier integration failed.
ready_integration_short_circuit(g) ==
    /\ ready_pc = g
    /\ IF Probes(g) /\ overall_ready
         THEN \E first, second \in ProbeOutcomes :
              LET r == test_connection(g, first, second) IN
              /\ probed' = [probed EXCEPT ![g] = @ + 1]
              /\ probe_outcome' = [probe_outcome EXCEPT
                                      ![g] = FinalOutcome(g, first, second)]
              /\ services_status' = (g :> ServiceStatus(r.value)) @@ services_status
              /\ overall_ready' = Overall(overall_ready, r.value)
         ELSE IF Unconfigured(g)
         THEN /\ services_status' = (g :> "not configured") @@ services_status
              /\ overall_ready' = FALSE
              /\ UNCHANGED <<probed, probe_outcome>>
         ELSE UNCHANGED <<services_status, overall_ready, probed, probe_outcome>>
    /\ ready_pc' = After(g)
    /\ UNCHANGED <<main_pc, clients, response, health>>
    /\ UNCHANGED <<elvars, cfgvars, othervars>>

\* line 104-111 for jira, 114-121 for argocd, 124-131 for firehydrant.  An
\* exception that test_connection lets through leaves ready_check, and the
\* server answers 500.
ready_integration(g) ==
    /\ ready_pc = g
    /\ IF Probes(g)
         THEN \E first, second \in ProbeOutcomes :
              LET r == test_connection(g, first, second) IN
              /\ probed' = [probed EXCEPT ![g] = @ + 1]
              /\ probe_outcome' = [probe_outcome EXCEPT
                                      ![g] = FinalOutcome(g, first, second)]
              /\ IF r.raises = "None"
                   THEN /\ services_status' =
                               (g :> ServiceStatus(r.value)) @@ services_status
                        /\ overall_ready' = Overall(overall_ready, r.value)
                        /\ ready_pc' = After(g)
                        /\ UNCHANGED response
                   ELSE /\ response' = [code |-> 500]
                        /\ ready_pc' = "idle"
                        /\ UNCHANGED <<services_status, overall_ready>>
         ELSE IF Unconfigured(g)
         THEN /\ services_status' = (g :> "not configured") @@ services_status
              /\ overall_ready' = FALSE
              /\ ready_pc' = After(g)
              /\ UNCHANGED <<probed, probe_outcome, response>>
         ELSE /\ ready_pc' = After(g)
              /\ UNCHANGED <<services_status, overall_ready, probed, probe_outcome,
                             response>>
    /\ UNCHANGED <<main_pc, clients, health>>
    /\ UNCHANGED <<elvars, cfgvars, othervars>>

\* line 133-139: the response; the server sends it with status 200.
ready_return ==
    /\ ready_pc = "return"
    /\ response' = [code |-> 200,
                    status |-> IF overall_ready THEN "ready" ELSE "not ready",
                    services |-> services_status]
    /\ ready_pc' = "idle"
    /\ UNCHANGED <<main_pc, clients, services_status, overall_ready, probed,
                   probe_outcome, health>>
    /\ UNCHANGED <<elvars, cfgvars, othervars>>

\* A section of the file that enables an integration and gives every field
\* the three models require.
EnabledSection ==
    Map([enabled |-> Bool(TRUE), base_url |-> FileUrl, username |-> FileUser,
         api_token |-> FileToken])

\* The configurations by the integrations they enable.
ReadyConfigs ==
    {AppConfig(Map([g \in E |-> EnabledSection])) : E \in SUBSET Integrations}

\* ready_check and health_check of a serving application, for every
\* combination of enabled flags and client globals (the globals are module
\* attributes that a host or a test can set).
InitReady ==
    /\ config \in ReadyConfigs
    /\ outcome = "returned"
    /\ cfg_pc = "done"
    /\ config_path = None
    /\ arg_path = None
    /\ exists = {}
    /\ environ = EmptyMap
    /\ document = NotRead
    /\ config_data = Null
    /\ EventLoopInit({15})
    /\ \E handles \in SUBSET Integrations : AppInit("serving", handles)

NextReady ==
    \/ health_check
    \/ ready_begin
    \/ \E g \in Integrations : ready_integration(g)
    \/ ready_return

SpecReady == InitReady /\ [][NextReady]_vars

-----------------------------------------------------------------------------
(* main.py run as a script: the module body, lines 22-61 and 154, and the   *)
(* __main__ block, lines 156-172.  The main thread is caller "main" of the  *)
(* EventLoop.                                                               *)

\* line 23: load_config() has returned or raised; an exception ends the
\* import of the module and with it the process.
main_config ==
    /\ main_pc = "23"
    /\ cfg_pc = "done"
    /\ main_pc' = IF outcome = "returned" THEN "26" ELSE "aborted"
    /\ UNCHANGED <<clients, ready_pc, services_status, overall_ready, probed,
                   probe_outcome, response, health>>
    /\ UNCHANGED <<elvars, cfgvars, othervars>>

\* line 26-33: app = FastAPI(...); Instrumentator().instrument(app).expose(app)
main_app ==
    /\ main_pc = "26"
    /\ main_pc' = "36"
    /\ UNCHANGED <<clients, ready_pc, services_status, overall_ready, probed,
                   probe_outcome, response, health>>
    /\ UNCHANGED <<elvars, cfgvars, othervars>>

\* line 36: event_loop = EventLoop(check_interval=config...check_interval)
main_event_loop ==
    /\ main_pc = "36"
    /\ check_interval' = config.catapult.event_loop.check_interval
    /\ main_pc' = "39"
    /\ UNCHANGED <<is_running, loop_thread, state_check_callback, thread, callers, pc,
                   joining, logged, raised, stop_called, outcomes>>
    /\ UNCHANGED <<clients, ready_pc, services_status, overall_ready, probed,
                   probe_outcome, response, health>>
    /\ UNCHANGED <<cfgvars, othervars>>

\* The constructions of lines 41, 46 and 51 skipped: every global stays None.
main_clients_none ==
    /\ main_pc = "39"
    /\ clients' = {}
    /\ main_pc' = "61"
    /\ UNCHANGED <<ready_pc, services_status, overall_ready, probed, probe_outcome,
                   response, health>>
    /\ UNCHANGED <<elvars, cfgvars, othervars>>

\* line 39-51: a client for each integration that config enables, else None
main_clients ==
    /\ main_pc = "39"
    /\ clients' = {g \in Integrations : config[g].enabled}
    /\ main_pc' = "61"
    /\ UNCHANGED <<ready_pc, services_status, overall_ready, probed, probe_outcome,
                   response, health>>
    /\ UNCHANGED <<elvars, cfgvars, othervars>>

\* line 54-61: event_loop.set_state_check_callback(state_check_callback); the
\* callback is `pass`, it returns.
main_set_callback ==
    /\ main_pc = "61"
    /\ state_check_callback' = "cb_return"
    /\ main_pc' = "154"
    /\ UNCHANGED <<check_interval, is_running, loop_thread, thread, callers, pc, joining,
                   logged, raised, stop_called, outcomes>>
    /\ UNCHANGED <<clients, ready_pc, services_status, overall_ready, probed,
                   probe_outcome, response, health>>
    /\ UNCHANGED <<cfgvars, othervars>>

\* line 154: atexit.register(cleanup)
main_register_cleanup ==
    /\ main_pc = "154"
    /\ main_pc' = "156"
    /\ UNCHANGED <<clients, ready_pc, services_status, overall_ready, probed,
                   probe_outcome, response, health>>
    /\ UNCHANGED <<elvars, cfgvars, othervars>>

\* The __main__ block without the test of line 158.
main_start_always ==
    /\ main_pc = "156"
    /\ start_enter("main")
    /\ main_pc' = "159"
    /\ UNCHANGED <<clients, ready_pc, services_status, overall_ready, probed,
                   probe_outcome, response, health>>
    /\ UNCHANGED <<cfgvars, othervars>>

\* line 156-159: if config.catapult.event_loop.enabled: event_loop.start()
main_start ==
    /\ main_pc = "156"
    /\ IF config.catapult.event_loop.enabled
         THEN start_enter("main")
         ELSE UNCHANGED elvars
    /\ main_pc' = "159"
    /\ UNCHANGED <<clients, ready_pc, services_status, overall_ready, probed,
                   probe_outcome, response, health>>
    /\ UNCHANGED <<cfgvars, othervars>>

\* line 162-168: uvicorn.run("src.catapult.main:app", ...) once start() has
\* returned.  The script runs as module __main__, so uvicorn's import of
\* src.catapult.main runs the module body a second time: load_config() is
\* called again and, the files and the environment being the same, resolves
\* the same configuration and client handles for the app that is served; the
\* EventLoop of that second body is not started.  Then the server binds and
\* serves, or uvicorn.run ends at once (the port is taken).
main_uvicorn_run ==
    /\ main_pc = "159"
    /\ pc["main"] = "idle"
    /\ loads' = loads + 1
    /\ main_pc' \in {"serving", "169"}
    /\ UNCHANGED <<clients, ready_pc, services_status, overall_ready, probed,
                   probe_outcome, response, health>>
    /\ UNCHANGED <<elvars, cfgvars, status, mwvars>>

\* uvicorn.run returns after a shutdown signal, or raises; the handler in
\* progress has run to its end.
main_server_ends ==
    /\ main_pc = "serving"
    /\ ready_pc = "idle"
    /\ main_pc' = "169"
    /\ UNCHANGED <<clients, ready_pc, services_status, overall_ready, probed,
                   probe_outcome, response, health>>
    /\ UNCHANGED <<elvars, cfgvars, othervars>>

\* line 169-172: finally: if config.catapult.event_loop.enabled: event_loop.stop()
main_finally ==
    /\ main_pc = "169"
    /\ IF config.catapult.event_loop.enabled
         THEN stop_enter("main")
         ELSE UNCHANGED elvars
    /\ main_pc' = "172"
    /\ UNCHANGED <<clients, ready_pc, services_status, overall_ready, probed,
                   probe_outcome, response, health>>
    /\ UNCHANGED <<cfgvars, othervars>>

\* line 148-150: the interpreter runs cleanup() at exit: event_loop.stop()
main_cleanup ==
    /\ main_pc = "172"
    /\ pc["main"] = "idle"
    /\ stop_enter("main")
    /\ main_pc' = "150"
    /\ UNCHANGED <<clients, ready_pc, services_status, overall_ready, probed,
                   probe_outcome, response, health>>
    /\ UNCHANGED <<cfgvars, othervars>>

\* The process exits when cleanup() has returned; the worker is a daemon
\* thread (event_loop.py line 26) and ends with the process.
main_exit ==
    /\ main_pc = "150"
    /\ pc["main"] = "idle"
    /\ main_pc' = "exited"
    /\ thread' = [t \in Threads |-> IF is_alive(t) THEN "dead" ELSE thread[t]]
    /\ UNCHANGED <<check_interval, is_running, loop_thread, state_check_callback,
                   callers, pc, joining, logged, raised, stop_called, outcomes>>
    /\ UNCHANGED <<clients, ready_pc, services_status, overall_ready, probed,
                   probe_outcome, response, health>>
    /\ UNCHANGED <<cfgvars, othervars>>

\* The files and the environment that the program is started with.
AppFiles == {{}, {"config.yaml"}}

AppEnvirons == {EmptyMap, "ARGOCD_ENABLED" :> "true"}

\* `python -m src.catapult.main`: load_config() is about to be called; the
\* EventLoop's fields are those of EventLoop.__init__ with its default
\* interval until line 36 constructs it.
InitApp ==
    /\ arg_path = None
    /\ config_path = None
    /\ exists \in AppFiles
    /\ environ \in AppEnvirons
    /\ cfg_pc = "path"
    /\ document = NotRead
    /\ config_data = Null
    /\ outcome = "None"
    /\ config = NoConfig
    /\ EventLoopInit({15})
    /\ AppInit("23", {})

NextApp ==
    \/ load_config_path
    \/ load_config_yaml
    \/ load_config_env
    \/ load_config_validate
    \/ main_config
    \/ main_app
    \/ main_event_loop
    \/ main_clients
    \/ main_set_callback
    \/ main_register_cleanup
    \/ main_start
    \/ start_set_running("main")
    \/ start_create_thread("main")
    \/ start_thread("main")
    \/ main_uvicorn_run
    \/ health_check
    \/ ready_begin
    \/ \E g \in Integrations : ready_integration(g)
    \/ ready_return
    \/ \E t \in Threads : run_loop_while(t)
    \/ \E t \in Threads : check_state(t)
    \/ \E t \in Threads : callback_ends(t)
    \/ \E t \in Threads : run_loop_sleep(t)
    \/ \E t \in Threads : run_loop_except(t)
    \/ main_server_ends
    \/ main_finally
    \/ stop_join_enter("main")
    \/ stop_join_ended("main")
    \/ stop_join_timeout("main")
    \/ main_cleanup
    \/ main_exit

SpecApp == InitApp /\ [][NextApp]_vars

-----------------------------------------------------------------------------
(* Properties of the scheduler *)

Alive == {t \in Threads : is_alive(t)}

\* C1: at most one worker thread executes the tick loop, in every state that
\* start() and stop() calls on one EventLoop can reach.
C1_AtMostOneWorker == Cardinality(Alive) <= 1

\* C2: no two invocations of the state-check callback are in progress at the
\* same time.
C2_TicksNeverOverlap == Cardinality({t \in Threads : InCallback(t)}) <= 1

\* The steps of a start() call and of a stop() call by thread c.
StartStep(c) ==
    \/ start_check(c)
    \/ start_set_running(c)
    \/ start_create_thread(c)
    \/ start_thread(c)

StopStep(c) ==
    \/ stop_clear_running(c)
    \/ stop_join_enter(c)
    \/ stop_join_ended(c)
    \/ stop_join_timeout(c)

InStop(c) == pc[c] \in {"stop_34", "stop_join"}

Created == {t \in Threads : thread[t] # "none"}

C4_StopNotRunningNoop ==
    [][\A c \in Callers :
        (~is_running /\ StopStep(c)) =>
            /\ is_running' = FALSE
            /\ raised' = "None"
            /\ UNCHANGED <<loop_thread, check_interval, state_check_callback, thread>>]_vars

\* stop() has returned on a scheduler that was never started.
C4_Witness ==
    /\ logged = "stopped"
    /\ loop_thread = 0
    /\ pc["main"] = "idle"
    /\ ~is_running
    /\ raised = "None"

\* C5: a stop() call always returns, with is_running false and no error, also
\* when the worker is in a callback that never returns or in a sleep longer
\* than the join timeout; a join that timed out leaves the worker running.
C5_StopAlwaysReturns ==
    /\ \A c \in Callers : InStop(c) ~> (pc[c] = "idle")
    /\ [][\A c \in Callers :
            (StopStep(c) /\ pc'[c] = "idle") =>
                (is_running' = FALSE /\ raised' = "None")]_vars
    /\ [][\A c \in Callers :
            StopStep(c) => (thread' = thread /\ loop_thread' = loop_thread)]_vars

\* stop() has returned although the worker is in a callback that never returns.
C5_Witness ==
    /\ logged = "stopped"
    /\ pc["main"] = "idle"
    /\ ~is_running
    /\ loop_thread # 0
    /\ thread[loop_thread] = "cb_hang"

\* C6: with a callback that raises on every invocation and no stop() call, the
\* started worker stays alive and is_running stays true.
C6_CallbackIsolation ==
    (/\ ~stop_called
     /\ loop_thread # 0
     /\ thread[loop_thread] # "new"
     /\ state_check_callback = "cb_raise"
     /\ outcomes \subseteq {"cb_raise"})
        => (is_running /\ is_alive(loop_thread))

\* C7: once started with a callback that always returns, and as long as stop()
\* is not called, the worker invokes the callback again and again; it invokes
\* it before it first sleeps.
C7_SchedulerLiveness ==
    /\ (/\ <>[](state_check_callback = "cb_return")
        /\ [](\A t \in Threads : thread[t] \notin {"cb_raise", "cb_hang"})
        /\ []~stop_called
        /\ <>(Alive # {}))
           => []<>(\E t \in Threads : thread[t] = "cb_return")
    /\ [][\A t \in Threads :
            (thread'[t] = "sleep" /\ thread[t] # "sleep") =>
                (InCallback(t) \/ state_check_callback = "None")]_vars

-----------------------------------------------------------------------------
(* Properties of load_config *)

\* C8: with an explicit path at which no file exists, load_config raises
\* FileNotFoundError: it reads no other file, applies no defaults and returns
\* no configuration.
C8_ExplicitPathNotFound ==
    (arg_path # None /\ arg_path \notin exists) =>
        /\ config_path = arg_path
        /\ cfg_pc \in {"path", "yaml", "done"}
        /\ document = NotRead
        /\ config = NoConfig
        /\ outcome \in {"None", "FileNotFoundError"}
        /\ cfg_pc = "done" => outcome = "FileNotFoundError"

\* load_config has failed on a missing explicit path although files exist at
\* conventional locations.
C8_Witness ==
    /\ arg_path = ExplicitPath
    /\ ExplicitPath \notin exists
    /\ ConventionalPaths \subseteq exists
    /\ cfg_pc = "done"
    /\ outcome = "FileNotFoundError"

\* The section of a document that override o writes to, {} where it is missing.
SectionOf(data, o) ==
    IF o.section = "server" THEN Sub(Sub(data, "catapult"), "server")
    ELSE Sub(data, o.section)

\* The value the models give the field of override o for document data.
FieldOf(data, o) ==
    CASE o.coerce = "bool" -> Bool(BoolField(SectionOf(data, o), o.field, FALSE))
      [] o.coerce = "int" -> Num(IntField(SectionOf(data, o), o.field, 8000))
      [] o.field = "host" -> Text(StrField(SectionOf(data, o), o.field, "0.0.0.0"))
      [] o.field = "log_level" ->
            Text(Lower(StrField(SectionOf(data, o), o.field, "info")))
      [] OTHER -> Text(OptStrField(SectionOf(data, o), o.field))

\* The field of override o in an AppConfig.
ConfigField(cfg, o) ==
    LET v == IF o.section = "server" THEN cfg.catapult.server[o.field]
             ELSE cfg[o.section][o.field]
    IN CASE o.coerce = "bool" -> Bool(v)
         [] o.coerce = "int" -> Num(v)
         [] OTHER -> Text(v)

\* The environment string s as the field of override o holds it.
FromEnv(o, s) ==
    CASE o.coerce = "bool" -> Bool(s \in {"true", "TRUE", "True"})
      [] o.coerce = "int" -> Num(ParseInt(s))
      [] o.field = "log_level" -> Text(Lower(s))
      [] OTHER -> Text(s)

FileDocument == IF Truthy(document) THEN document ELSE Map(EmptyMap)

\* C9: in a configuration resolved from a file, every overridable field whose
\* environment variable is set holds the coerced environment value whatever the
\* file gives it, and every other overridable field holds the file's value.
C9_EnvOverridesFile ==
    (outcome = "returned" /\ document # NotRead) =>
        \A i \in DOMAIN Overrides :
            LET o == Overrides[i] IN
            IF o.var \in DOMAIN environ
            THEN ConfigField(config, o) = FromEnv(o, environ[o.var])
            ELSE ConfigField(config, o) = FieldOf(FileDocument, o)

\* A configuration was resolved in which the environment's port and the file's
\* port differ, or the environment enables an integration the file disables.
C9_Witness ==
    /\ outcome = "returned"
    /\ document # NotRead
    /\ \E i \in DOMAIN Overrides :
        LET o == Overrides[i] IN
        /\ o.var \in DOMAIN environ
        /\ Has(SectionOf(FileDocument, o), o.field)
        /\ FieldOf(FileDocument, o) # FromEnv(o, environ[o.var])
        /\ ConfigField(config, o) = FromEnv(o, environ[o.var])

\* The required fields of the integrations, lines 85-90, 107, 124-127.
Required(integration) ==
    CASE integration = "jira" -> {"base_url", "username", "api_token"}
      [] integration = "argocd" -> {"base_url"}
      [] integration = "firehydrant" -> {"base_url", "api_token"}

\* A document in which an enabled integration lacks a required field.
LacksRequired(data) ==
    \E g \in Integrations :
        /\ Has(data, g) /\ IsMap(data.m[g])
        /\ Has(data.m[g], "enabled") /\ data.m[g].m["enabled"] = Bool(TRUE)
        /\ \E f \in Required(g) :
            \/ ~Has(data.m[g], f)
            \/ data.m[g].m[f] \in {Null, Text("")}

\* C10: a configuration that load_config returns has every required field of
\* every enabled integration non-empty, and when the merged file and
\* environment values lack one, load_config raises the validation ValueError.
C10_EnabledIntegrationsComplete ==
    /\ [](outcome = "returned" =>
             \A g \in Integrations :
                 config[g].enabled =>
                     \A f \in Required(g) : config[g][f] \notin {None, "", Invalid})
    /\ [][(cfg_pc = "validate" /\ cfg_pc' = "done"
              /\ IsMap(config_data) /\ LacksRequired(config_data))
             => (outcome' = "ValueError" /\ config' = NoConfig)]_vars

\* load_config raised the validation error for Jira enabled by the environment
\* on top of a file that gives no credentials; and it has returned a
\* configuration with an enabled integration.
C10_Witness ==
    \/ /\ outcome = "ValueError"
       /\ "JIRA_ENABLED" \in DOMAIN environ
       /\ document = Map([jira |-> Map([enabled |-> Bool(FALSE)])])
       /\ LacksRequired(config_data)
    \/ /\ outcome = "returned"
       /\ config.firehydrant.enabled
       /\ "FIREHYDRANT_BASE_URL" \in DOMAIN environ

\* C11: also when no configuration file is found, every field whose
\* environment variable is set holds the coerced environment value in the
\* configuration that load_config returns.
C11_EnvAppliedWithoutFile ==
    (outcome = "returned" /\ document = NotRead) =>
        \A i \in DOMAIN Overrides :
            LET o == Overrides[i] IN
            o.var \in DOMAIN environ =>
                /\ o.coerce = "int" => IsIntString(environ[o.var])
                /\ ConfigField(config, o) = FromEnv(o, environ[o.var])

\* The defaults of the models, lines 36-136.
DefaultTree ==
    [catapult |->
        [server |-> [host |-> "0.0.0.0", port |-> 8000, log_level |-> "info"],
         event_loop |-> [check_interval |-> 15, enabled |-> TRUE]],
     jira |-> [enabled |-> FALSE, base_url |-> None, username |-> None,
               api_token |-> None],
     argocd |-> [enabled |-> FALSE, base_url |-> None, username |-> None,
                 password |-> None, token |-> None],
     firehydrant |-> [enabled |-> FALSE, base_url |-> None, api_token |-> None]]

C13_CheckIntervalPositive ==
    outcome = "returned" => config.catapult.event_loop.check_interval > 0

\* C20: load_config returns a configuration or raises FileNotFoundError, the
\* YAML error or the validation ValueError, and nothing else.
C20_OnlyDeclaredErrors ==
    /\ outcome \in {"None", "returned", "FileNotFoundError", "YAMLError", "ValueError"}
    /\ cfg_pc = "done" => outcome # "None"
    /\ outcome = "returned" <=> config # NoConfig

-----------------------------------------------------------------------------
(* Properties of the readiness check *)

\* A /ready request has been answered and no other is in progress.
Answered == ready_pc = "idle" /\ response # NoResponse

EnabledIntegrations == {g \in Integrations : config[g].enabled}

\* C14: the overall status of a readiness report is "ready" exactly when every
\* enabled integration has a client whose probe of this call got a 200, for
\* every combination of enabled flags, clients and probe outcomes; with no
\* integration enabled it is "ready".
C14_ReadyIffAllEnabledReady ==
    Answered =>
        /\ response.code = 200
        /\ response.status \in {"ready", "not ready"}
        /\ response.status = "ready" <=>
               \A g \in EnabledIntegrations :
                   g \in clients /\ probe_outcome[g] = "200"
        /\ EnabledIntegrations = {} => response.status = "ready"

\* All three integrations are enabled and have clients, every probe succeeded
\* and the report says "ready".
C14_Witness ==
    /\ Answered
    /\ EnabledIntegrations = Integrations
    /\ clients = Integrations
    /\ \A g \in Integrations : probe_outcome[g] = "200" /\ probed[g] = 1
    /\ response.status = "ready"

\* C15: the services map of a readiness report has exactly the enabled
\* integrations as keys; a disabled integration is never probed and its block
\* leaves the overall status and the map as they are.
C15_DisabledOmitted ==
    /\ [](Answered => DOMAIN response.services = EnabledIntegrations)
    /\ [](\A g \in Integrations \ EnabledIntegrations :
             probed[g] = 0 /\ probe_outcome[g] = "none")
    /\ [][\A g \in Integrations \ EnabledIntegrations :
             ready_pc = g => UNCHANGED <<overall_ready, services_status>>]_vars

\* A report was given with a client handle present for a disabled
\* integration: that integration is not in it and the status is "ready".
C15_Witness ==
    /\ Answered
    /\ EnabledIntegrations = {"argocd"}
    /\ clients = {"jira", "argocd"}
    /\ DOMAIN response.services = {"argocd"}
    /\ response.status = "ready"

\* C16: an enabled integration without a client handle is reported as
\* "not configured", no probe is invoked for it, and the overall status is
\* "not ready".
C16_EnabledWithoutClient ==
    \A g \in EnabledIntegrations \ clients :
        /\ probed[g] = 0
        /\ probe_outcome[g] = "none"
        /\ Answered =>
               /\ g \in DOMAIN response.services
               /\ response.services[g] = "not configured"
               /\ response.status = "not ready"

\* Jira is enabled without a client, ArgoCD is enabled, has one and is ready:
\* the report names Jira "not configured" and is "not ready" overall.
C16_Witness ==
    /\ Answered
    /\ EnabledIntegrations = {"jira", "argocd"}
    /\ clients = {"argocd"}
    /\ response.services = ("jira" :> "not configured") @@ ("argocd" :> "ready")
    /\ response.status = "not ready"

\* The report that follows from the configuration, the client globals and
\* the probe outcomes of one call.
ExpectedServices ==
    [g \in EnabledIntegrations |->
        IF g \notin clients THEN "not configured"
        ELSE IF probe_outcome[g] = "200" THEN "ready" ELSE "not ready"]

ExpectedStatus ==
    IF \A g \in EnabledIntegrations : ExpectedServices[g] = "ready"
    THEN "ready" ELSE "not ready"

\* C17: when a readiness check has gone through its three blocks it has
\* invoked test_connection exactly once on every enabled integration that has
\* a client, also after an earlier one failed, and its report is the one that
\* follows from the probe outcomes of this call, whatever was reported before.
C17_NoCachingNoShortCircuit ==
    /\ ready_pc = "return" =>
           /\ probed = [g \in Integrations |-> IF Probes(g) THEN 1 ELSE 0]
           /\ services_status = ExpectedServices
           /\ overall_ready = (ExpectedStatus = "ready")
    /\ Answered =>
           /\ probed = [g \in Integrations |-> IF Probes(g) THEN 1 ELSE 0]
           /\ response = [code |-> 200, status |-> ExpectedStatus,
                          services |-> ExpectedServices]

\* A second readiness check is about to answer "not ready" after the first
\* answered "ready": Jira's probe failed this time and ArgoCD and FireHydrant
\* were probed all the same.
C17_Witness ==
    /\ ready_pc = "return"
    /\ response # NoResponse
    /\ response.status = "ready"
    /\ DOMAIN response.services = Integrations
    /\ probe_outcome["jira"] = "Timeout"
    /\ probed = [g \in Integrations |-> 1]
    /\ services_status["argocd"] = "ready"
    /\ ~overall_ready

-----------------------------------------------------------------------------
(* Properties of the running service *)

\* C18: whatever the probes of a readiness check end in and whatever the
\* scheduler is doing, /ready is answered with status 200 and a status field
\* and /health with status 200 and "healthy"; a probe that failed shows as
\* "not ready" for its integration, and every block of ready_check is
\* followed by the next one.
C18_RuntimeFailuresContained ==
    /\ [](response # NoResponse =>
             response.code = 200 /\ response.status \in {"ready", "not ready"})
    /\ [](health # NoResponse => health = [code |-> 200, status |-> "healthy"])
    /\ [](Answered =>
             \A g \in Integrations :
                 probe_outcome[g] \notin {"none", "200"} =>
                     g \in DOMAIN response.services
                         /\ response.services[g] = "not ready")
    /\ [][(ready_pc \in Integrations) =>
            (ready_pc' \in {ready_pc, After(ready_pc)})]_vars

\* /ready and /health were answered while the worker was in its sleep, and
\* the probe of this readiness check ended in a connection error.
C18_Witness ==
    /\ Answered
    /\ health # NoResponse
    /\ \E g \in Integrations :
           probe_outcome[g] = "ConnectionError" /\ response.services[g] = "not ready"
    /\ response.status = "not ready"
    /\ is_running
    /\ loop_thread # 0
    /\ thread[loop_thread] = "sleep"

\* The main thread is past uvicorn.run.
ServerEnded == main_pc \in {"169", "172", "150", "exited"}

\* C19: stop() is called only after the server has ended, it is called when
\* the finally block is left if the scheduler is enabled, and the process
\* does not exit with a scheduler that was started and not stopped; with the
\* scheduler disabled no worker is created and no callback runs.
C19_StoppedOnShutdown ==
    /\ [](stop_called => ServerEnded)
    /\ [][(main_pc = "169" /\ main_pc' # "169"
              /\ config.catapult.event_loop.enabled) => stop_called']_vars
    /\ [](main_pc = "exited" =>
             /\ stop_called
             /\ ~is_running)
    /\ [](outcome = "returned" /\ ~config.catapult.event_loop.enabled =>
             /\ Created = {}
             /\ ~is_running
             /\ outcomes = {}
             /\ pc["main"] \notin {"start_25", "start_26", "start_27"})

\* The process has exited after the scheduler ran the callback and stop()
\* was called.
C19_Witness ==
    /\ main_pc = "exited"
    /\ config.catapult.event_loop.enabled
    /\ Created # {}
    /\ outcomes # {}
    /\ stop_called
    /\ ~is_running

-----------------------------------------------------------------------------
(* Further properties of load_config *)

\* The variable that switches integration g on or off, lines 216, 231, 249.
EnabledVar(g) ==
    CASE g = "jira" -> "JIRA_ENABLED"
      [] g = "argocd" -> "ARGOCD_ENABLED"
      [] g = "firehydrant" -> "FIREHYDRANT_ENABLED"

\* C21: in a configuration that load_config returns, an integration whose
\* _ENABLED variable is set is enabled exactly when the variable's value is
\* "true" in any case, whatever the file says.
C21_BooleanOverride ==
    outcome = "returned" =>
        \A g \in Integrations :
            EnabledVar(g) \in DOMAIN environ =>
                (config[g].enabled <=> environ[EnabledVar(g)] \in {"true", "TRUE", "True"})

-----------------------------------------------------------------------------
(* Further properties of the scheduler *)

\* C23: a callback invocation that ends, by returning or by raising, is
\* followed by the sleep of line 42, and a worker comes to the loop condition
\* again only from that sleep, which has lasted check_interval: not without a
\* sleep and not by way of the second sleep of the handler.
C23_FailedTickKeepsInterval ==
    /\ [][\A t \in Threads :
            (InCallback(t) /\ thread'[t] # thread[t]) => thread'[t] = "sleep"]_vars
    /\ [][\A t \in Threads :
            (thread'[t] = "while" /\ thread[t] \notin {"while", "new"}) =>
                (thread[t] = "sleep" /\ check_interval >= 0)]_vars

\* A worker whose callback has only ever raised is at the loop condition again.
C23_Witness ==
    /\ outcomes = {"cb_raise"}
    /\ loop_thread # 0
    /\ thread[loop_thread] = "while"
    /\ Cardinality(Created) = 1
    /\ is_running

\* C24: while is_running is false no worker comes to the point where it
\* invokes the callback: a worker that passed the loop condition before the
\* flag was cleared makes its one invocation, and at the loop condition a
\* worker that finds the flag cleared ends.
C24_NoNewTickAfterStop ==
    /\ [][\A t \in Threads :
            (~is_running /\ ~is_running' /\ thread'[t] = "check") =>
                thread[t] = "check"]_vars
    /\ [][\A t \in Threads :
            (~is_running /\ thread[t] = "while" /\ thread'[t] # "while") =>
                thread'[t] = "dead"]_vars

\* After stop() the worker finished the invocation it was in, slept, found
\* the flag cleared and ended.
C24_Witness ==
    /\ stop_called
    /\ ~is_running
    /\ pc["main"] = "idle"
    /\ loop_thread # 0
    /\ thread[loop_thread] = "dead"
    /\ outcomes # {}
    /\ check_interval >= 0

\* C28: outside a start() call in progress, is_running implies that the
\* worker thread exists and is alive.
C28_RunningImpliesAlive ==
    (is_running /\ \A c \in Callers : pc[c] \notin {"start_25", "start_26", "start_27"})
        => (loop_thread # 0 /\ is_alive(loop_thread))

-----------------------------------------------------------------------------
(* Further properties of the running service *)

\* C22: load_config is called once; until it has returned the module is at
\* line 23, with no client, no worker thread and no request answered; and
\* when it raises, the module body goes no further.
C22_ResolvedOnceBeforeStartup ==
    /\ loads <= 1
    /\ cfg_pc # "done" =>
           /\ main_pc = "23"
           /\ clients = {} /\ Created = {} /\ ~is_running
           /\ response = NoResponse /\ health = NoResponse
    /\ outcome \notin {"None", "returned"} =>
           /\ main_pc \in {"23", "aborted"}
           /\ clients = {} /\ Created = {} /\ ~is_running
           /\ response = NoResponse /\ health = NoResponse
\* The module body is past the construction of the clients.
ClientsBuilt ==
    main_pc \in {"61", "154", "156", "159", "serving", "169", "172", "150", "exited"}

\* C29: once the clients are constructed, an integration has a client handle
\* exactly if the configuration enables it, no later step changes the
\* configuration or the handles, and no readiness report says
\* "not configured".
C29_ClientsMatchConfig ==
    /\ [](ClientsBuilt => clients = EnabledIntegrations)
    /\ [][ClientsBuilt => UNCHANGED <<config, clients>>]_vars
    /\ [](response # NoResponse =>
             \A g \in DOMAIN response.services :
                 response.services[g] # "not configured")

\* The service answered a readiness check for its one enabled integration
\* while the scheduler had run the callback.
C29_Witness ==
    /\ main_pc = "serving"
    /\ Answered
    /\ clients = {"jira"}
    /\ config.jira.enabled
    /\ DOMAIN response.services = {"jira"}
    /\ outcomes # {}

\* C25: cooperative cancellation completes. If the scheduler is stopped and
\* not started again (is_running stays cleared from some point on) and no
\* callback hangs, then from some point on no worker thread is alive and
\* get_status reports is_running false and thread_alive false.
C25_CancellationCompletes ==
    (<>[](~is_running) /\ [](\A t \in Threads : thread[t] # "cb_hang"))
        => <>[](/\ Alive = {}
                /\ Snapshot.is_running = FALSE
                /\ Snapshot.thread_alive = FALSE)

C25_Witness ==
    /\ stop_called
    /\ logged = "stopped"
    /\ pc["main"] = "idle"
    /\ "cb_return" \in outcomes
    /\ Alive = {}
    /\ Snapshot = [is_running |-> FALSE, check_interval |-> 15, thread_alive |-> FALSE]

\* A call of get_status() by thread c takes a step.
StatusStep(c) ==
    \/ status'[c] # status[c]
    \/ pc[c] = "idle" /\ pc'[c] = "status_63"
    \/ pc[c] = "status_63" /\ pc'[c] = "idle"

\* No start() has been entered yet.
BeforeAnyStart ==
    /\ Unused = Threads
    /\ ~is_running
    /\ \A c \in Callers : pc[c] \notin {"start_25", "start_26", "start_27"}

\* C26: get_status() has no side effects and is safe in any interleaving
\* with start() and stop(): its steps change none of is_running,
\* check_interval, loop_thread, the callback or the threads, and whatever is
\* raised comes out of start() (line 27) or stop() (line 34), never out of
\* get_status(); the
\* check_interval it reports is the configured one; before any start() it
\* reports is_running false and thread_alive false.
C26_StatusIsPure ==
    /\ [][\A c \in Callers : StatusStep(c) =>
              /\ UNCHANGED <<is_running, check_interval, loop_thread,
                             state_check_callback, thread, joining, logged,
                             stop_called, outcomes>>
              /\ raised' = raised \/ raised' = "None"]_vars
    /\ [][raised' # raised /\ raised' # "None" =>
              \E c \in Callers : pc[c] \in {"start_27", "stop_34"} /\ pc'[c] = "idle"]_vars
    /\ [](\A c \in Callers : status[c] # NoStatus =>
              status[c].check_interval = check_interval)
    /\ [](BeforeAnyStart => \A c \in Callers :
              /\ pc[c] # "status_63"
              /\ status[c] # NoStatus =>
                     status[c].is_running = FALSE /\ status[c].thread_alive = FALSE)

C26_Witness ==
    /\ pc["main"] = "stop_join"
    /\ pc["other"] = "idle"
    /\ status["other"] = [is_running |-> TRUE, check_interval |-> 15,
                          thread_alive |-> TRUE]
    /\ ~is_running
    /\ raised = "None"

\* C27: two start() calls issued concurrently on a scheduler that is not
\* running create exactly one worker thread: as long as stop() has not been
\* called, at most one thread object was ever created.
C27_ConcurrentStartOneWorker ==
    ~stop_called => Cardinality(Created) <= 1

\* C30: the in-progress gauge is balanced. For every (method, endpoint) the
\* gauge equals the number of requests inside the handler with these labels
\* (so it is never negative and is 0 when none is in flight), also after
\* requests whose handler raised; the request counter changes only by one
\* increment, for the labels and status of a request that got its response
\* in that step, and not at all when a request ends with an exception.
C30_GaugeBalanced ==
    /\ [](\A l \in Labels : ACTIVE_REQUESTS[l] = Cardinality(InFlight(l)))
    /\ [][\A k \in CountLabels : REQUEST_COUNT'[k] # REQUEST_COUNT[k] =>
              /\ REQUEST_COUNT'[k] = REQUEST_COUNT[k] + 1
              /\ \E r \in Requests :
                     /\ requests[r].at = "call_next"
                     /\ requests'[r].at = "responded"
                     /\ k = <<requests[r].method, requests[r].endpoint,
                              requests'[r].status>>]_vars
    /\ [][(\E r \in Requests : requests[r].at = "call_next"
                                /\ requests'[r].at = "raised")
              => REQUEST_COUNT' = REQUEST_COUNT]_vars

C30_Witness ==
    /\ requests[1].at = "raised"
    /\ requests[1].endpoint = "/ready"
    /\ requests[2].at = "call_next"
    /\ requests[2].endpoint = "/ready"
    /\ requests[2].method = requests[1].method
    /\ ACTIVE_REQUESTS[<<requests[2].method, "/ready">>] = 1
    /\ Total(REQUEST_COUNT, CountLabels) = 1


=============================================================================
